---- MODULE Spec2Model ----
(***************************************************************************)
(* Payout bot (src/index.js): one Postgres table of payout rows, three     *)
(* Discord interaction handlers (slash command, modal submit, button) and  *)
(* the cooldown worker started by setInterval.  Every await of a handler   *)
(* is a point where the other handlers and the worker may run, so each     *)
(* action below is the code between two awaits together with the database  *)
(* statement or Discord call that the await waits for.                     *)
(*                                                                         *)
(* Text is a sequence of one-character strings, <<"1","0","0">>.           *)
(***************************************************************************)
EXTENDS Integers, Sequences, FiniteSets, TLC

\* ------------------------------------------------------------------ bounds
\* rows the form may insert while one worker callback runs at a time
MaxRows == 2
\* rows the form may insert while worker callbacks overlap
OverlapRows == 1
\* button interaction events delivered
NumButtons == 2
\* cooldown worker callbacks that may be in flight together
NumSweeps == 2
\* steps of the wall clock
MaxAdvances == 2

\* --------------------------------------------------------------- constants
\* SQL NULL / JS null of a numeric column or of a message id
Null == -1
\* no channel id, no user id
NoChannel == "null"
NoUser == "null"
\* Times are counted in seconds from the start of the process: a value t
\* stands for the code's 1000 * t milliseconds (TLC's integers are 32 bits
\* wide, the code's are doubles that no value here overflows).
\* 14 * 24 * 60 * 60 * 1000 ms
COOLDOWN_MS == 14 * 24 * 60 * 60
\* process.env.PAYOUT_LOGS_CHANNEL_ID
PAYOUT_LOGS_CHANNEL_ID == "logs"
\* custom ids of the three buttons
BUTTONS == [PAY |-> "payout:pay", COOLDOWN |-> "payout:cooldown", DECLINE |-> "payout:decline"]
ButtonIds == {BUTTONS.PAY, BUTTONS.COOLDOWN, BUTTONS.DECLINE}
Statuses == {"OPEN", "PAID", "DECLINED", "COOLDOWN"}

\* guild members that send interactions: u1 holds ManageGuild, u2 holds the
\* role r1, u3 holds neither
Members ==
  { [id |-> "u1", manageGuild |-> TRUE,  roles |-> {}],
    [id |-> "u2", manageGuild |-> FALSE, roles |-> {"r1"}],
    [id |-> "u3", manageGuild |-> FALSE, roles |-> {}] }

\* process.env.ALLOWED_ROLE_IDS after split, trim and filter
AllowLists == { <<>>, <<"r1">> }

\* ------------------------------------------------------------ text helpers
Digits == <<"0", "1", "2", "3", "4", "5", "6", "7", "8", "9">>
IsDigit(c) == \E k \in 1..10 : Digits[k] = c
DigitVal(c) == (CHOOSE k \in 1..10 : Digits[k] = c) - 1

RECURSIVE StripLeft(_)
StripLeft(s) == IF s # <<>> /\ Head(s) = " " THEN StripLeft(Tail(s)) ELSE s
RECURSIVE StripRight(_)
StripRight(s) ==
  IF s # <<>> /\ s[Len(s)] = " " THEN StripRight(SubSeq(s, 1, Len(s) - 1)) ELSE s
\* String.prototype.trim
Trim(s) == StripRight(StripLeft(s))

\* the longest prefix of s made of digits
RECURSIVE DigitPrefix(_)
DigitPrefix(s) ==
  IF s # <<>> /\ IsDigit(Head(s)) THEN <<Head(s)>> \o DigitPrefix(Tail(s)) ELSE <<>>

\* Number("0123") of a digit string
RECURSIVE DigitsToNat(_)
DigitsToNat(s) ==
  IF s = <<>> THEN 0 ELSE 10 * DigitsToNat(SubSeq(s, 1, Len(s) - 1)) + DigitVal(s[Len(s)])

\* parseInt(s, 10): leading white space, an optional sign, then the longest
\* run of digits; NaN when there is none
ParseIntMutNoSign(raw) ==
  LET s == StripLeft(raw)
      body == IF s # <<>> /\ s[1] \in {"+", "-"} THEN Tail(s) ELSE s
      ds == DigitPrefix(body)
  IN  IF ds = <<>> THEN [nan |-> TRUE, val |-> 0]
      ELSE [nan |-> FALSE, val |-> DigitsToNat(ds)]
ParseInt(raw) ==
  LET s == StripLeft(raw)
      neg == s # <<>> /\ s[1] = "-"
      body == IF s # <<>> /\ s[1] \in {"+", "-"} THEN Tail(s) ELSE s
      ds == DigitPrefix(body)
  IN  IF ds = <<>> THEN [nan |-> TRUE, val |-> 0]
      ELSE [nan |-> FALSE, val |-> IF neg THEN 0 - DigitsToNat(ds) ELSE DigitsToNat(ds)]

\* ------------------------------------------------------------ date helpers
\* s split at every sep, as String.prototype.split does
RECURSIVE Split(_, _)
Split(s, sep) ==
  IF \A k \in 1..Len(s) : s[k] # sep THEN <<s>>
  ELSE LET k == CHOOSE i \in 1..Len(s) : s[i] = sep /\ \A j \in 1..(i - 1) : s[j] # sep
       IN  <<SubSeq(s, 1, k - 1)>> \o Split(SubSeq(s, k + 1, Len(s)), sep)

AllDigits(s) == \A k \in 1..Len(s) : IsDigit(s[k])
\* /^\d{1,2}\/\d{1,2}\/\d{4}$/
MatchesMdy(s) ==
  LET p == Split(s, "/")
  IN  /\ Len(p) = 3
      /\ Len(p[1]) \in {1, 2} /\ AllDigits(p[1])
      /\ Len(p[2]) \in {1, 2} /\ AllDigits(p[2])
      /\ Len(p[3]) = 4 /\ AllDigits(p[3])
\* /^\d{4}-\d{2}-\d{2}$/
MatchesIso(s) ==
  LET p == Split(s, "-")
  IN  /\ Len(p) = 3
      /\ Len(p[1]) = 4 /\ AllDigits(p[1])
      /\ Len(p[2]) = 2 /\ AllDigits(p[2])
      /\ Len(p[3]) = 2 /\ AllDigits(p[3])

IsLeap(y) == (y % 4 = 0 /\ y % 100 # 0) \/ y % 400 = 0
\* days of month mon (0 = January) of year y
DaysInMonth(y, mon) ==
  IF mon = 1 THEN (IF IsLeap(y) THEN 29 ELSE 28)
  ELSE IF mon \in {3, 5, 8, 10} THEN 30 ELSE 31

\* the calendar date that is day d of month mon of year y, d and mon possibly
\* out of range: the Date constructor carries the excess over
RECURSIVE CarryDate(_, _, _)
CarryDate(y, mon, d) ==
  IF mon < 0 THEN CarryDate(y - 1, mon + 12, d)
  ELSE IF mon > 11 THEN CarryDate(y + 1, mon - 12, d)
  ELSE IF d < 1 THEN
    LET pm == IF mon = 0 THEN 11 ELSE mon - 1
        py == IF mon = 0 THEN y - 1 ELSE y
    IN  CarryDate(py, pm, d + DaysInMonth(py, pm))
  ELSE IF d > DaysInMonth(y, mon) THEN
    CarryDate(IF mon = 11 THEN y + 1 ELSE y, IF mon = 11 THEN 0 ELSE mon + 1,
              d - DaysInMonth(y, mon))
  ELSE [year |-> y, month |-> mon, date |-> d]

\* new Date(y, monthIndex, d): a year 0..99 means 1900 + year
NewDate(y, mon, d) == CarryDate(IF y \in 0..99 THEN 1900 + y ELSE y, mon, d)

\* String(n) of a natural number
RECURSIVE NatToText(_)
NatToText(n) ==
  IF n < 10 THEN <<Digits[n + 1]>> ELSE NatToText(n \div 10) \o <<Digits[(n % 10) + 1]>>
\* String(n).padStart(2, "0")
Pad2(n) == IF n < 10 THEN <<"0">> \o NatToText(n) ELSE NatToText(n)

fmtMDY(dt) == Pad2(dt.month + 1) \o <<"/">> \o Pad2(dt.date) \o <<"/">> \o NatToText(dt.year)

\* the failure signal of normalizeDate
NoDate == <<"null">>

\* new Date(input) of the general parser followed by fmtMDY; only the inputs
\* without any digit are modelled: they give an Invalid Date
ParseGeneral(input) == NoDate

normalizeDate(input) ==
  IF MatchesMdy(input) THEN
    LET p == Split(input, "/")
        m == DigitsToNat(p[1])
        d == DigitsToNat(p[2])
        y == DigitsToNat(p[3])
        dt == NewDate(y, m - 1, d)
    IN  IF dt.year = y /\ dt.month + 1 = m /\ dt.date = d
        THEN NatToText(m) \o <<"/">> \o NatToText(d) \o <<"/">> \o NatToText(y)
        ELSE NoDate
  ELSE IF MatchesIso(input) THEN
    LET p == Split(input, "-")
    IN  fmtMDY(NewDate(DigitsToNat(p[1]), DigitsToNat(p[2]) - 1, DigitsToNat(p[3])))
  ELSE ParseGeneral(input)

\* --------------------------------------------------------------- the store
\* INSERT INTO payouts ... RETURNING *: the serial id is the next one
insertPayoutMutNoStamp(rs, robloxUser, amount, reason, requestedById, now) ==
  Append(rs, [id |-> Len(rs) + 1, messageId |-> Null, channelId |-> NoChannel,
              robloxUser |-> robloxUser, amount |-> amount, reason |-> reason,
              status |-> "OPEN", requestedById |-> requestedById,
              actedById |-> NoUser, createdAt |-> now, updatedAt |-> 0,
              dueAt |-> Null])
insertPayout(rs, robloxUser, amount, reason, requestedById, now) ==
  Append(rs, [id |-> Len(rs) + 1, messageId |-> Null, channelId |-> NoChannel,
              robloxUser |-> robloxUser, amount |-> amount, reason |-> reason,
              status |-> "OPEN", requestedById |-> requestedById,
              actedById |-> NoUser, createdAt |-> now, updatedAt |-> now,
              dueAt |-> Null])

\* UPDATE payouts SET message_id, channel_id WHERE id
setMessageLink(rs, id, messageId, channelId) ==
  [rs EXCEPT ![id].messageId = messageId, ![id].channelId = channelId]

\* SELECT * FROM payouts WHERE message_id = $1: the ids of the rows found
getByMessageIdMutLatest(rs, messageId) ==
  IF \E k \in 1..Len(rs) : rs[k].messageId = messageId
  THEN { k \in 1..Len(rs) : rs[k].messageId = messageId }
  ELSE { k \in 1..Len(rs) : k = Len(rs) }
getByMessageId(rs, messageId) == { k \in 1..Len(rs) : rs[k].messageId = messageId }

\* SELECT * FROM payouts WHERE id = $1
getById(rs, id) == rs[id]

\* the UPDATE of updateStatus: no condition on the row's present status
updateStatusMutKeepDue(rs, id, status, actedById, now, dueAt) ==
  [rs EXCEPT ![id].status = status, ![id].actedById = actedById, ![id].updatedAt = now,
             ![id].dueAt = IF dueAt = Null THEN rs[id].dueAt ELSE dueAt]
updateStatusMutGuardOpen(rs, id, status, actedById, now, dueAt) ==
  IF rs[id].status # "OPEN" THEN rs
  ELSE [rs EXCEPT ![id].status = status, ![id].actedById = actedById,
                  ![id].updatedAt = now, ![id].dueAt = dueAt]
updateStatus(rs, id, status, actedById, now, dueAt) ==
  [rs EXCEPT ![id].status = status, ![id].actedById = actedById, ![id].updatedAt = now,
             ![id].dueAt = dueAt]

\* SELECT * FROM payouts WHERE status='COOLDOWN' AND due_at IS NOT NULL AND
\* due_at <= $1: the rows found, in id order
RECURSIVE DueFrom(_, _, _)
DueFrom(rs, k, now) ==
  IF k > Len(rs) THEN <<>>
  ELSE (IF rs[k].status = "COOLDOWN" /\ rs[k].dueAt # Null /\ rs[k].dueAt <= now
        THEN <<[id |-> k, channelId |-> rs[k].channelId]>> ELSE <<>>)
       \o DueFrom(rs, k + 1, now)
getDueCooldowns(rs, now) == DueFrom(rs, 1, now)

\* the UPDATE of reopenAndDetach: no condition on the row's present status
reopenAndDetachMutKeepLink(rs, id, channelId, now) ==
  [rs EXCEPT ![id].status = "OPEN", ![id].channelId = channelId,
             ![id].updatedAt = now, ![id].dueAt = Null]
reopenAndDetachMutNewCreated(rs, id, channelId, now) ==
  [rs EXCEPT ![id].status = "OPEN", ![id].messageId = Null, ![id].channelId = channelId,
             ![id].updatedAt = now, ![id].dueAt = Null, ![id].createdAt = now]
reopenAndDetach(rs, id, channelId, now) ==
  [rs EXCEPT ![id].status = "OPEN", ![id].messageId = Null, ![id].channelId = channelId,
             ![id].updatedAt = now, ![id].dueAt = Null]

\* ------------------------------------------------------------- permissions
hasPayoutPermissionMutAnyRole(member, allowList) ==
  IF member.manageGuild THEN TRUE
  ELSE IF Len(allowList) = 0 THEN FALSE
  ELSE TRUE
hasPayoutPermission(member, allowList) ==
  IF member.manageGuild THEN TRUE
  ELSE IF Len(allowList) = 0 THEN FALSE
  ELSE \E k \in 1..Len(allowList) : allowList[k] \in member.roles

\* ------------------------------------------------------------------- cards
\* controls(disabled): the three buttons, all with the same disabled flag
controls(disabled) ==
  [b \in ButtonIds |-> disabled]

\* the message postCard sends: the row's embed and enabled controls
RenderPosted(row) == [row |-> row.id, status |-> row.status, components |-> controls(FALSE)]
\* the message the button handler leaves after i.update
RenderUpdated(row) ==
  [row |-> row.id, status |-> row.status, components |-> controls(row.status # "OPEN")]

\* ------------------------------------------------------------------- state
VARIABLES
  rows,        \* the payouts table: rows[id] is the row with that serial id
  cards,       \* the messages posted in Discord: cards[message id]
  allowList,   \* ALLOWED_ROLE_IDS
  clock,       \* Date.now()
  advances,    \* how many times the clock has stepped
  modal,       \* the modal submit handler
  btn,         \* the button handlers, one per interaction event
  sweep,       \* the cooldown worker callbacks
  requeue      \* history, per row: the reopens and the cards posted by the worker
               \* since the row last entered COOLDOWN, and who wrote the row last

vars == <<rows, cards, allowList, clock, advances, modal, btn, sweep, requeue>>

ButtonSlots == 1..NumButtons
SweepSlots == 1..NumSweeps

\* what the form's text inputs may hold
AmountInputs ==
  { <<"1", "0", "0">>, <<" ", "1", "0", "0", " ">>, <<"0">>, <<"-", "5">>, <<"a", "b", "c">> }
DateInputs ==
  { <<"8", "/", "1", "9", "/", "2", "0", "2", "5">>,
    <<"2", "0", "2", "5", "-", "0", "8", "-", "1", "9">>,
    <<"2", "/", "3", "0", "/", "2", "0", "2", "5">>,
    <<"a", "b", "c">> }
\* what guild.channels.fetch(PAYOUT_LOGS_CHANNEL_ID) may give: a text channel,
\* a channel of another type, or a rejection
FetchOutcomes == {"GuildText", "GuildVoice", "rejected"}

\* a submission of the form: who sends it, the text of the amount and date
\* fields, and what the fetch of the log channel gives
FormInputs ==
  [member : Members, amountRaw : AmountInputs, dateRaw : DateInputs, logsChan : FetchOutcomes]
\* the one submission the concurrency specification repeats
PlainForm ==
  { [member |-> [id |-> "u1", manageGuild |-> TRUE, roles |-> {}],
     amountRaw |-> <<"1", "0", "0">>,
     dateRaw |-> <<"8", "/", "1", "9", "/", "2", "0", "2", "5">>,
     logsChan |-> "GuildText"] }
\* the member whose click the concurrency specification delivers as its b-th
\* one: u1 and u2 take turns
Clicker(b) == { m \in Members : m.id = (IF b % 2 = 1 THEN "u1" ELSE "u2") }

\* who wrote a row
Form == [kind |-> "form", slot |-> 0]
Click(b) == [kind |-> "click", slot |-> b]
Tick(s) == [kind |-> "tick", slot |-> s]

NoRow == [id |-> 0]
NoInput == [member |-> NoUser]
ModalIdle == [pc |-> "idle", input |-> NoInput, row |-> NoRow, amount |-> 0,
              date |-> NoDate, msg |-> Null]
BtnIdle == [pc |-> "idle", msg |-> Null, customId |-> "", user |-> NoUser,
            rowId |-> 0, updated |-> NoRow]
SweepIdle == [pc |-> "idle", due |-> <<>>, idx |-> 0, channelId |-> NoChannel,
              refreshed |-> NoRow, msg |-> Null, failed |-> {}]

Init ==
  /\ rows = <<>>
  /\ cards = <<>>
  /\ allowList = <<"r1">>
  /\ clock = 0
  /\ advances = 0
  /\ modal = ModalIdle
  /\ btn = [b \in ButtonSlots |-> BtnIdle]
  /\ sweep = [s \in SweepSlots |-> SweepIdle]
  /\ requeue = <<>>

\* ------------------------------------------------------------------- clock
Advance ==
  /\ advances < MaxAdvances
  /\ clock' = clock + COOLDOWN_MS
  /\ advances' = advances + 1
  /\ UNCHANGED <<rows, cards, allowList, modal, btn, sweep, requeue>>

\* ------------------------------------------------- modal submit -> create card
\* the handler is not between two of its awaits
ModalFinished ==
  modal.pc \in {"idle", "denied", "bad_amount", "bad_date", "bad_channel"}

\* the reply a rejected submission gets, with the submission it answers
Rejected(why, in) == [ModalIdle EXCEPT !.pc = why, !.input = in]

\* lines 248-271: the permission check, the validation of the fields and the
\* fetch of the log channel
ModalSubmit(in, maxRows) ==
  /\ ModalFinished
  /\ Len(rows) < maxRows
  /\ LET amount == ParseInt(Trim(in.amountRaw))
         dateNorm == normalizeDate(Trim(in.dateRaw))
         who == [in EXCEPT !.member = in.member.id]
     IN  modal' =
           IF ~hasPayoutPermission(in.member, allowList) THEN Rejected("denied", who)
           ELSE IF amount.nan \/ amount.val <= 0 THEN Rejected("bad_amount", who)
           ELSE IF dateNorm = NoDate THEN Rejected("bad_date", who)
           ELSE IF in.logsChan # "GuildText" THEN Rejected("bad_channel", who)
           ELSE [ModalIdle EXCEPT !.pc = "insert", !.input = who, !.amount = amount.val,
                                  !.date = dateNorm]
  /\ UNCHANGED <<rows, cards, allowList, clock, advances, btn, sweep, requeue>>

\* lines 273-282: DB.insertPayout with now = Date.now(), read as the call is made
ModalInsert ==
  /\ modal.pc = "insert"
  /\ rows' = insertPayout(rows, "payee", modal.amount, modal.date, modal.input.member, clock)
  /\ requeue' = Append(requeue, [reopens |-> 0, posts |-> 0, writer |-> Form])
  /\ modal' = [modal EXCEPT !.pc = "send", !.row = rows'[Len(rows')]]
  /\ UNCHANGED <<cards, allowList, clock, advances, btn, sweep>>

\* line 206 under line 284: channel.send of postCard; a rejection leaves the
\* handler with an unhandled error
ModalSend ==
  /\ modal.pc = "send"
  /\ \/ /\ cards' = Append(cards, RenderPosted(modal.row))
        /\ modal' = [modal EXCEPT !.pc = "link", !.msg = Len(cards) + 1]
     \/ /\ modal' = ModalIdle
        /\ UNCHANGED cards
  /\ UNCHANGED <<rows, allowList, clock, advances, btn, sweep, requeue>>

\* line 207 under line 284: DB.setMessageLink of postCard, then the reply
ModalLink ==
  /\ modal.pc = "link"
  /\ rows' = setMessageLink(rows, modal.row.id, modal.msg, PAYOUT_LOGS_CHANNEL_ID)
  /\ requeue' = [requeue EXCEPT ![modal.row.id].writer = Form]
  /\ modal' = ModalIdle
  /\ UNCHANGED <<cards, allowList, clock, advances, btn, sweep>>

\* ---------------------------------------------------------- button handlers
\* the status a custom id asks for
TargetStatus(customId) ==
  IF customId = BUTTONS.PAY THEN "PAID"
  ELSE IF customId = BUTTONS.DECLINE THEN "DECLINED"
  ELSE "COOLDOWN"
\* the dueAt argument of updateStatus: now + 14 days for Cooldown, else the default null
TargetDueAtMutNoDelay(customId, now) ==
  IF customId = BUTTONS.COOLDOWN THEN now ELSE Null
TargetDueAt(customId, now) ==
  IF customId = BUTTONS.COOLDOWN THEN now + COOLDOWN_MS ELSE Null

\* lines 290-303: a click on one of the buttons of a posted card arrives (a
\* card is posted with its buttons enabled, and the click may be handled any
\* time later); the permission check, then DB.getByMessageId
ButtonLookup(b, members) ==
  /\ btn[b].pc = "idle"
  /\ \A c \in 1..(b - 1) : btn[c].pc # "idle"
  /\ \E msg \in 1..Len(cards), customId \in ButtonIds, member \in members :
       IF ~hasPayoutPermission(member, allowList)
       THEN btn' = [btn EXCEPT ![b] = [BtnIdle EXCEPT !.pc = "denied", !.user = member.id]]
       ELSE IF getByMessageId(rows, msg) = {}
       THEN btn' = [btn EXCEPT ![b] = [BtnIdle EXCEPT !.pc = "notfound", !.msg = msg,
                                           !.user = member.id]]
       ELSE \E id \in getByMessageId(rows, msg) :
              btn' = [btn EXCEPT ![b] = [BtnIdle EXCEPT !.pc = "update", !.msg = msg,
                                           !.customId = customId, !.user = member.id,
                                           !.rowId = id]]
  /\ UNCHANGED <<rows, cards, allowList, clock, advances, modal, sweep, requeue>>

\* lines 303-312 with lines 90-95: the UPDATE of DB.updateStatus with
\* now = Date.now(), read as the call is made
ButtonUpdate(b) ==
  /\ btn[b].pc = "update"
  /\ rows' = updateStatus(rows, btn[b].rowId, TargetStatus(btn[b].customId), btn[b].user,
                          clock, TargetDueAt(btn[b].customId, clock))
  /\ requeue' = [requeue EXCEPT ![btn[b].rowId] =
                   IF btn[b].customId = BUTTONS.COOLDOWN
                   THEN [reopens |-> 0, posts |-> 0, writer |-> Click(b)]
                   ELSE [@ EXCEPT !.writer = Click(b)]]
  /\ btn' = [btn EXCEPT ![b].pc = "getById"]
  /\ UNCHANGED <<cards, allowList, clock, advances, modal, sweep>>

\* line 96: the SELECT that gives `updated`
ButtonGetById(b) ==
  /\ btn[b].pc = "getById"
  /\ btn' = [btn EXCEPT ![b].pc = "render", ![b].updated = getById(rows, btn[b].rowId)]
  /\ UNCHANGED <<rows, cards, allowList, clock, advances, modal, sweep, requeue>>

\* lines 314-324: i.update re-renders the clicked card, then the follow-up
ButtonRender(b) ==
  /\ btn[b].pc = "render"
  /\ cards' = [cards EXCEPT ![btn[b].msg] = RenderUpdated(btn[b].updated)]
  /\ btn' = [btn EXCEPT ![b] = [BtnIdle EXCEPT !.pc = "acked"]]
  /\ UNCHANGED <<rows, allowList, clock, advances, modal, sweep, requeue>>

\* ---------------------------------------------------------- cooldown worker
\* the loop goes on to the next due row, or the callback returns
NextRow(sw) ==
  IF sw.idx + 1 > Len(sw.due) THEN SweepIdle
  ELSE [sw EXCEPT !.pc = "fetch", !.idx = sw.idx + 1, !.channelId = NoChannel,
                  !.refreshed = NoRow, !.msg = Null]
\* the catch of line 341, then the next row
AfterFailureMutAbort(sw) == SweepIdle
AfterFailure(sw) == NextRow([sw EXCEPT !.failed = sw.failed \cup {sw.due[sw.idx].id}])

\* line 329: a tick of setInterval; DB.getDueCooldowns(Date.now())
SweepStart(s) ==
  /\ sweep[s].pc = "idle"
  /\ \A t \in 1..(s - 1) : sweep[t].pc # "idle"
  /\ LET due == getDueCooldowns(rows, clock)
     IN  sweep' = [sweep EXCEPT ![s] = IF due = <<>> THEN SweepIdle
                                        ELSE [SweepIdle EXCEPT !.pc = "fetch", !.due = due,
                                                               !.idx = 1]]
  /\ UNCHANGED <<rows, cards, allowList, clock, advances, modal, btn, requeue>>

\* line 332: the row's own channel id, or the configured one
ChannelOf(row) ==
  IF row.channelId # NoChannel THEN row.channelId ELSE PAYOUT_LOGS_CHANNEL_ID

\* lines 332-333: client.channels.fetch resolves
SweepFetchOk(s) ==
  /\ sweep[s].pc = "fetch"
  /\ sweep' = [sweep EXCEPT ![s].pc = "reopen",
                            ![s].channelId = ChannelOf(sweep[s].due[sweep[s].idx])]
  /\ UNCHANGED <<rows, cards, allowList, clock, advances, modal, btn, requeue>>

\* lines 333 and 341: client.channels.fetch rejects
SweepFetchFail(s) ==
  /\ sweep[s].pc = "fetch"
  /\ sweep' = [sweep EXCEPT ![s] = AfterFailure(sweep[s])]
  /\ UNCHANGED <<rows, cards, allowList, clock, advances, modal, btn, requeue>>

\* line 334 with lines 109-114: the UPDATE of DB.reopenAndDetach with
\* now = Date.now(), read as the call is made
SweepReopenOk(s) ==
  /\ sweep[s].pc = "reopen"
  /\ LET id == sweep[s].due[sweep[s].idx].id
     IN  /\ rows' = reopenAndDetach(rows, id, sweep[s].channelId, clock)
         /\ requeue' = [requeue EXCEPT ![id].reopens = requeue[id].reopens + 1,
                                        ![id].writer = Tick(s)]
  /\ sweep' = [sweep EXCEPT ![s].pc = "getById"]
  /\ UNCHANGED <<cards, allowList, clock, advances, modal, btn>>

\* lines 334 and 341: the query of DB.reopenAndDetach rejects
SweepReopenFail(s) ==
  /\ sweep[s].pc = "reopen"
  /\ sweep' = [sweep EXCEPT ![s] = AfterFailure(sweep[s])]
  /\ UNCHANGED <<rows, cards, allowList, clock, advances, modal, btn, requeue>>

\* line 115: the SELECT that gives `refreshed`
SweepGetById(s) ==
  /\ sweep[s].pc = "getById"
  /\ sweep' = [sweep EXCEPT ![s].pc = "send",
                            ![s].refreshed = getById(rows, sweep[s].due[sweep[s].idx].id)]
  /\ UNCHANGED <<rows, cards, allowList, clock, advances, modal, btn, requeue>>

\* line 206 under line 337: channel.send of postCard resolves
SweepSendOk(s) ==
  /\ sweep[s].pc = "send"
  /\ cards' = Append(cards, RenderPosted(sweep[s].refreshed))
  /\ sweep' = [sweep EXCEPT ![s].pc = "link", ![s].msg = Len(cards) + 1]
  /\ requeue' = [requeue EXCEPT ![sweep[s].refreshed.id].posts =
                                   requeue[sweep[s].refreshed.id].posts + 1]
  /\ UNCHANGED <<rows, allowList, clock, advances, modal, btn>>

\* lines 206 and 341: channel.send of postCard rejects
SweepSendFail(s) ==
  /\ sweep[s].pc = "send"
  /\ sweep' = [sweep EXCEPT ![s] = AfterFailure(sweep[s])]
  /\ UNCHANGED <<rows, cards, allowList, clock, advances, modal, btn, requeue>>

\* line 207 under line 337: DB.setMessageLink of postCard, then the next row
SweepLink(s) ==
  /\ sweep[s].pc = "link"
  /\ rows' = setMessageLink(rows, sweep[s].refreshed.id, sweep[s].msg, sweep[s].channelId)
  /\ requeue' = [requeue EXCEPT ![sweep[s].refreshed.id].writer = Tick(s)]
  /\ sweep' = [sweep EXCEPT ![s] = NextRow(sweep[s])]
  /\ UNCHANGED <<cards, allowList, clock, advances, modal, btn>>

\* ----------------------------------------------------------- specification
\* the steps of the bot with at most maxRows rows, nb clicks and ns worker
\* callbacks in flight together
NextOf(maxRows, nb, ns) ==
  \/ Advance
  \/ \E in \in PlainForm : ModalSubmit(in, maxRows)
  \/ ModalInsert
  \/ ModalSend
  \/ ModalLink
  \/ \E b \in 1..nb : ButtonLookup(b, Clicker(b))
  \/ \E b \in 1..nb : ButtonUpdate(b)
  \/ \E b \in 1..nb : ButtonGetById(b)
  \/ \E b \in 1..nb : ButtonRender(b)
  \/ \E s \in 1..ns : SweepStart(s)
  \/ \E s \in 1..ns : SweepFetchOk(s)
  \/ \E s \in 1..ns : SweepFetchFail(s)
  \/ \E s \in 1..ns : SweepReopenOk(s)
  \/ \E s \in 1..ns : SweepReopenFail(s)
  \/ \E s \in 1..ns : SweepGetById(s)
  \/ \E s \in 1..ns : SweepSendOk(s)
  \/ \E s \in 1..ns : SweepSendFail(s)
  \/ \E s \in 1..ns : SweepLink(s)

\* overlapping worker callbacks and clicks on one row
Next == NextOf(OverlapRows, NumButtons, NumSweeps)
Spec == Init /\ [][Next]_vars

\* a worker callback with several due rows
NextBatch == NextOf(MaxRows, NumButtons, 1)
SpecBatch == Init /\ [][NextBatch]_vars

\* one worker callback at a time on one row, with the scheduling the run time
\* gives: the timer keeps firing, a handler that can take its next step takes
\* it, and a fetch, a query or a post that is tried again and again resolves
NextLive == NextOf(OverlapRows, NumButtons, 1)
Fairness ==
  /\ WF_vars(SweepStart(1))
  /\ SF_vars(SweepFetchOk(1))
  /\ SF_vars(SweepReopenOk(1))
  /\ WF_vars(SweepGetById(1))
  /\ SF_vars(SweepSendOk(1))
  /\ WF_vars(SweepLink(1))
  /\ WF_vars(ModalInsert)
  /\ WF_vars(ModalLink)
  /\ \A b \in ButtonSlots :
       WF_vars(ButtonUpdate(b)) /\ WF_vars(ButtonGetById(b)) /\ WF_vars(ButtonRender(b))
SpecLive == Init /\ [][NextLive]_vars /\ Fairness

\* the form alone, over every input
InitForm ==
  /\ rows = <<>>
  /\ cards = <<>>
  /\ allowList \in AllowLists
  /\ clock = 0
  /\ advances = 0
  /\ modal = ModalIdle
  /\ btn = [b \in ButtonSlots |-> BtnIdle]
  /\ sweep = [s \in SweepSlots |-> SweepIdle]
  /\ requeue = <<>>
NextForm ==
  \/ Advance
  \/ \E in \in FormInputs : ModalSubmit(in, MaxRows)
  \/ ModalInsert
  \/ ModalSend
  \/ ModalLink
SpecForm == InitForm /\ [][NextForm]_vars

\* every member submits and clicks, under either allow-list, with every amount
GateForms ==
  { in \in FormInputs :
      /\ in.dateRaw = <<"8", "/", "1", "9", "/", "2", "0", "2", "5">>
      /\ in.logsChan = "GuildText" }
NextGate ==
  \/ Advance
  \/ \E in \in GateForms : ModalSubmit(in, OverlapRows)
  \/ ModalInsert
  \/ ModalSend
  \/ ModalLink
  \/ \E b \in ButtonSlots : ButtonLookup(b, Members)
  \/ \E b \in ButtonSlots : ButtonUpdate(b)
  \/ \E b \in ButtonSlots : ButtonGetById(b)
  \/ \E b \in ButtonSlots : ButtonRender(b)
  \/ SweepStart(1)
  \/ SweepFetchOk(1)
  \/ SweepFetchFail(1)
  \/ SweepReopenOk(1)
  \/ SweepReopenFail(1)
  \/ SweepGetById(1)
  \/ SweepSendOk(1)
  \/ SweepSendFail(1)
  \/ SweepLink(1)
SpecGate == InitForm /\ [][NextGate]_vars

\* normalizeDate alone, applied to a date text and then to its own result.
\* The texts are written from a month, a day and a year in the three shapes
\* the two patterns accept: M/D/YYYY, MM/DD/YYYY and YYYY-MM-DD.
DateMonths == {0, 1, 2, 8, 12, 13}
DateDays == {0, 1, 9, 19, 28, 29, 30, 31, 32}
\* every year here is written back with four digits, so what normalizeDate
\* returns matches one of its two patterns again
DateYears == {50, 1900, 2024, 2025}
DateShapes == {"M/D/YYYY", "MM/DD/YYYY", "YYYY-MM-DD"}
\* four digits of a year
Year4(y) ==
  (IF y < 10 THEN <<"0", "0", "0">> ELSE IF y < 100 THEN <<"0", "0">>
   ELSE IF y < 1000 THEN <<"0">> ELSE <<>>) \o NatToText(y)
DateText(shape, m, d, y) ==
  IF shape = "M/D/YYYY" THEN NatToText(m) \o <<"/">> \o NatToText(d) \o <<"/">> \o Year4(y)
  ELSE IF shape = "MM/DD/YYYY" THEN Pad2(m) \o <<"/">> \o Pad2(d) \o <<"/">> \o Year4(y)
  ELSE Year4(y) \o <<"-">> \o Pad2(m) \o <<"-">> \o Pad2(d)
DateCases ==
  { [shape |-> sh, m |-> m, d |-> d, y |-> y, dateRaw |-> DateText(sh, m, d, y)] :
      sh \in DateShapes, m \in DateMonths, d \in DateDays, y \in DateYears }
InitDate ==
  /\ rows = <<>>
  /\ cards = <<>>
  /\ allowList = <<"r1">>
  /\ clock = 0
  /\ advances = 0
  /\ modal \in { [pc |-> "idle", input |-> c, date |-> NoDate, again |-> NoDate] :
                   c \in DateCases }
  /\ btn = [b \in ButtonSlots |-> BtnIdle]
  /\ sweep = [s \in SweepSlots |-> SweepIdle]
  /\ requeue = <<>>
\* line 264: dateNorm = normalizeDate(dateRaw)
NormalizeOnce ==
  /\ modal.pc = "idle"
  /\ modal' = [modal EXCEPT !.pc = "normalized", !.date = normalizeDate(modal.input.dateRaw)]
  /\ UNCHANGED <<rows, cards, allowList, clock, advances, btn, sweep, requeue>>
\* normalizeDate applied to the text it returned
NormalizeAgain ==
  /\ modal.pc = "normalized"
  /\ modal.date # NoDate
  /\ modal' = [modal EXCEPT !.pc = "renormalized", !.again = normalizeDate(modal.date)]
  /\ UNCHANGED <<rows, cards, allowList, clock, advances, btn, sweep, requeue>>
NextDate == NormalizeOnce \/ NormalizeAgain
SpecDate == InitDate /\ [][NextDate]_vars

\* ------------------------------------------------------------------ claims
RowIds == 1..Len(rows)
\* a handler that has read row r and has a write to it still to come
HeldByHandler(r) ==
  \/ modal.row.id = r
  \/ \E b \in ButtonSlots : btn[b].pc = "update" /\ btn[b].rowId = r
  \/ \E s \in SweepSlots :
       /\ sweep[s].pc # "idle"
       /\ \E k \in sweep[s].idx..Len(sweep[s].due) : sweep[s].due[k].id = r
\* the ids a worker callback holds in its due list
DueIds(sw) == { sw.due[k].id : k \in 1..Len(sw.due) }

\* C1: once a row is PAID or DECLINED, no step of any handler or of the worker
\* changes its status.
C1_TerminalStatusNeverChanges ==
  [][\A r \in RowIds :
       rows[r].status \in {"PAID", "DECLINED"} => rows'[r].status = rows[r].status]_vars

\* C2: since a row last entered COOLDOWN, the worker has reopened it at most
\* once and has posted at most one card for it, however its callbacks overlap.
C2_RowRequeuedAtMostOnce ==
  \A r \in RowIds : requeue[r].reopens <= 1 /\ requeue[r].posts <= 1

\* C3: in every state and for every row, dueAt is non-null exactly when the
\* status is COOLDOWN.
C3_DueAtIffCooldown ==
  \A r \in RowIds : (rows[r].dueAt # Null) <=> (rows[r].status = "COOLDOWN")
\* a row that a click put in COOLDOWN, the worker reopened and a second click
\* has just put in COOLDOWN again
C3_Witness ==
  \E r \in RowIds :
    /\ rows[r].status = "COOLDOWN"
    /\ rows[r].dueAt = clock + COOLDOWN_MS
    /\ clock > 0
    /\ rows[r].messageId > 1
    /\ btn[1].pc = "acked"
    /\ btn[2].pc = "getById" /\ btn[2].rowId = r

\* C4: a row's status becomes OPEN only in the worker's reopenAndDetach, and
\* only from COOLDOWN.
C4_ReopenOnlyFromCooldown ==
  [][\A r \in RowIds :
       (rows[r].status # "OPEN" /\ rows'[r].status = "OPEN") =>
         /\ rows[r].status = "COOLDOWN"
         /\ \E s \in SweepSlots :
              /\ sweep[s].pc = "reopen" /\ sweep'[s].pc = "getById"
              /\ sweep[s].due[sweep[s].idx].id = r]_vars

\* C5: the UPDATE of a card action leaves the row with the status, the actor
\* and the dueAt of that action, whatever the row held before: of two actions
\* applied one after the other, the second one's values stay.
C5_LastTransitionWins ==
  [][\A b \in ButtonSlots :
       (btn[b].pc = "update" /\ btn'[b].pc = "getById") =>
         LET r == btn[b].rowId
             id == btn[b].customId
         IN  /\ id = "payout:pay" => rows'[r].status = "PAID" /\ rows'[r].dueAt = Null
             /\ id = "payout:decline" =>
                  rows'[r].status = "DECLINED" /\ rows'[r].dueAt = Null
             /\ id = "payout:cooldown" =>
                  rows'[r].status = "COOLDOWN" /\ rows'[r].dueAt = clock + 14 * 86400
             /\ rows'[r].actedById = btn[b].user]_vars
\* Pay by u1 then Decline by u2: the card the first handler re-rendered shows
\* PAID, and the row is DECLINED by u2
C5_Witness ==
  \E r \in RowIds, m \in 1..Len(cards) :
    /\ cards[m].row = r /\ cards[m].status = "PAID"
    /\ rows[r].status = "DECLINED" /\ rows[r].actedById = "u2" /\ rows[r].dueAt = Null
    /\ btn[1].pc = "acked" /\ btn[2].pc = "getById"

\* C6: a Cooldown handled at time T leaves the row in COOLDOWN, due at
\* T + 14 days; a tick selects exactly the COOLDOWN rows due at or before its
\* query time; reopenAndDetach leaves the row OPEN with dueAt and message link
\* null; the link step of postCard then sets the link to the card just posted,
\* and the row is still OPEN with dueAt null unless another handler has
\* written it since the reopen.
C6_CooldownRoundTrip ==
  [][/\ \A b \in ButtonSlots :
          (btn[b].pc = "update" /\ btn'[b].pc = "getById"
             /\ btn[b].customId = "payout:cooldown") =>
            /\ rows'[btn[b].rowId].status = "COOLDOWN"
            /\ rows'[btn[b].rowId].dueAt = clock + 14 * 86400
     /\ \A s \in SweepSlots :
          /\ (sweep[s].pc = "idle" /\ sweep'[s].pc = "fetch") =>
               DueIds(sweep'[s]) =
                 { r \in RowIds : rows[r].status = "COOLDOWN" /\ rows[r].dueAt <= clock }
          /\ (sweep[s].pc = "reopen" /\ sweep'[s].pc = "getById") =>
               LET r == sweep[s].due[sweep[s].idx].id
               IN  /\ rows'[r].status = "OPEN"
                   /\ rows'[r].dueAt = Null
                   /\ rows'[r].messageId = Null
          /\ (sweep[s].pc = "link" /\ sweep'[s].pc # "link") =>
               LET r == sweep[s].due[sweep[s].idx].id
               IN  /\ rows[r].messageId # sweep[s].msg
                   /\ rows'[r].messageId = sweep[s].msg
                   /\ cards[sweep[s].msg].row = r
                   /\ requeue[r].writer = Tick(s) =>
                        /\ rows[r].messageId = Null
                        /\ rows'[r].status = "OPEN"
                        /\ rows'[r].dueAt = Null]_vars
\* the row after a round trip: put in COOLDOWN, due, reopened once and linked
\* to the one card the worker posted for it
C6_Witness ==
  \E r \in RowIds :
    /\ rows[r].status = "OPEN" /\ rows[r].dueAt = Null
    /\ rows[r].messageId # Null /\ rows[r].messageId > 1
    /\ cards[rows[r].messageId].status = "OPEN"
    /\ cards[1].status = "COOLDOWN"
    /\ requeue[r].reopens = 1 /\ requeue[r].posts = 1
    /\ requeue[r].writer.kind = "tick"
    /\ clock >= COOLDOWN_MS
    /\ \A s \in SweepSlots : sweep[s].pc = "idle"

\* C7: a row that is in COOLDOWN and due is later OPEN and linked to a card,
\* unless a click has made it PAID or DECLINED or has put it in COOLDOWN anew.
C7_DueRowResurfaces ==
  \A r \in 1..OverlapRows :
    (r \in RowIds /\ rows[r].status = "COOLDOWN" /\ rows[r].dueAt <= clock)
      ~> (r \in RowIds /\
            \/ rows[r].status = "OPEN" /\ rows[r].messageId # Null
            \/ rows[r].status \in {"PAID", "DECLINED"}
            \/ rows[r].status = "COOLDOWN" /\ rows[r].dueAt > clock)

\* C8: a worker callback leaves a row of its due list only for the next row
\* of the list, and returns only after the last one; a failed fetch, reopen
\* or post does not end the callback.
C8_FailureDoesNotEndTick ==
  [][\A s \in SweepSlots :
       (sweep[s].pc # "idle" /\ sweep'[s] # sweep[s]) =>
         \/ /\ sweep'[s].pc \notin {"idle", "fetch"}
            /\ sweep'[s].idx = sweep[s].idx
            /\ sweep'[s].due = sweep[s].due
         \/ /\ sweep[s].idx < Len(sweep[s].due)
            /\ sweep'[s].pc = "fetch"
            /\ sweep'[s].idx = sweep[s].idx + 1
            /\ sweep'[s].due = sweep[s].due
         \/ /\ sweep[s].idx = Len(sweep[s].due)
            /\ sweep'[s].pc = "idle"]_vars
\* the first row of a tick failed and the second one has its card posted
C8_Witness ==
  /\ sweep[1].pc = "link"
  /\ sweep[1].idx = 2
  /\ sweep[1].failed = {sweep[1].due[1].id}

\* C9: a failed channel fetch changes no row, and a tick selects every row
\* that is in COOLDOWN and due, so the row is selected again; a card post that
\* fails after the reopen, with no other handler having written the row since,
\* leaves the row OPEN with message link and dueAt null; such a row, once no
\* handler holds it, is never changed again and no tick selects it.
C9_RequeueFailureOutcomes ==
  [][/\ \A s \in SweepSlots :
          /\ (sweep[s].pc = "fetch" /\ sweep'[s] # sweep[s] /\ sweep'[s].pc # "reopen") =>
               rows' = rows
          /\ (sweep[s].pc = "idle" /\ sweep'[s].pc = "fetch") =>
               /\ \A r \in RowIds :
                    (rows[r].status = "COOLDOWN" /\ rows[r].dueAt <= clock) =>
                      r \in DueIds(sweep'[s])
               /\ \A r \in DueIds(sweep'[s]) : rows[r].status = "COOLDOWN"
          /\ (sweep[s].pc = "send" /\ sweep'[s] # sweep[s] /\ sweep'[s].pc # "link") =>
               LET r == sweep[s].due[sweep[s].idx].id
               IN  /\ cards' = cards
                   /\ requeue[r].writer = Tick(s) =>
                        /\ rows'[r].status = "OPEN"
                        /\ rows'[r].messageId = Null
                        /\ rows'[r].dueAt = Null
     /\ \A r \in RowIds :
          (rows[r].status = "OPEN" /\ rows[r].messageId = Null /\ ~HeldByHandler(r)) =>
            rows'[r] = rows[r]]_vars
\* a row the worker reopened and posted no card for, with every callback over
C9_Witness ==
  \E r \in RowIds :
    /\ rows[r].status = "OPEN" /\ rows[r].messageId = Null /\ rows[r].dueAt = Null
    /\ requeue[r].reopens = 1 /\ requeue[r].posts = 0
    /\ ~HeldByHandler(r)
    /\ \A s \in SweepSlots : sweep[s].pc = "idle"

\* the submissions the handler must refuse: a bad amount, a bad date, or no
\* usable log channel
C10_BadInput(in) ==
  \/ in.amountRaw \in { <<"0">>, <<"-", "5">>, <<"a", "b", "c">> }
  \/ in.dateRaw \in { <<"2", "/", "3", "0", "/", "2", "0", "2", "5">>, <<"a", "b", "c">> }
  \/ in.logsChan \in {"GuildVoice", "rejected"}
\* C10: a submission whose amount is "0", "-5" or "abc", whose date is
\* "2/30/2025" or "abc", or whose log channel is missing or not a text channel
\* is answered with a rejection and changes neither the rows nor the cards;
\* rows and cards change only in a handler whose submission is none of these.
C10_RejectedFormCreatesNothing ==
  [][/\ (ModalFinished /\ modal' # modal /\ C10_BadInput(modal'.input)) =>
          /\ modal'.pc \in {"denied", "bad_amount", "bad_date", "bad_channel"}
          /\ rows' = rows
          /\ cards' = cards
     /\ (rows' # rows \/ cards' # cards) =>
          /\ modal.pc \in {"insert", "send", "link"}
          /\ ~C10_BadInput(modal.input)]_vars
\* after one request was posted, a submission with the date 2/30/2025 has been
\* rejected: there is still one row and one card
C10_Witness ==
  /\ modal.pc = "bad_date"
  /\ modal.input.dateRaw = <<"2", "/", "3", "0", "/", "2", "0", "2", "5">>
  /\ Len(rows) = 1
  /\ Len(cards) = 1
  /\ rows[1].messageId = 1

\* the member with this id may act: manage-server, or a role of a non-empty
\* allow-list
C11_Allowed(id) ==
  \E m \in Members :
    /\ m.id = id
    /\ \/ m.manageGuild
       \/ allowList # <<>> /\ \E k \in 1..Len(allowList) : allowList[k] \in m.roles
\* C11: a submission or a click is answered with a denial exactly when its
\* caller holds neither manage-server nor (the allow-list being non-empty) an
\* allow-listed role; a row is created only by a submission of an allowed
\* caller, and a row's status, actor or dueAt is changed only by the UPDATE of
\* a click of an allowed caller or by the worker.
C11_PermissionGating ==
  [][/\ (ModalFinished /\ modal' # modal) =>
          ((modal'.pc = "denied") <=> ~C11_Allowed(modal'.input.member))
     /\ \A b \in ButtonSlots :
          (btn[b].pc = "idle" /\ btn'[b].pc # "idle") =>
            ((btn'[b].pc = "denied") <=> ~C11_Allowed(btn'[b].user))
     /\ Len(rows') > Len(rows) => C11_Allowed(modal.input.member)
     /\ \A r \in RowIds :
          (\/ rows'[r].status # rows[r].status
           \/ rows'[r].actedById # rows[r].actedById
           \/ rows'[r].dueAt # rows[r].dueAt) =>
            \/ \E b \in ButtonSlots :
                 /\ btn[b].pc = "update" /\ btn'[b].pc = "getById" /\ btn[b].rowId = r
                 /\ C11_Allowed(btn[b].user)
            \/ sweep[1].pc = "reopen" /\ sweep'[1].pc = "getById"]_vars
\* with an empty allow-list, the click of the role holder u2 was denied and
\* the click of u1 has paid the row
C11_Witness ==
  /\ allowList = <<>>
  /\ btn[1].pc = "denied" /\ btn[1].user = "u2"
  /\ btn[2].pc = "acked"
  /\ Len(rows) = 1 /\ rows[1].status = "PAID" /\ rows[1].actedById = "u1"

\* C12: in every state, a row that has a card posted in a channel has a
\* message id and a channel id, and the lookup by that message id finds it.
C12_CardLinkedWhileRendered ==
  \A m \in 1..Len(cards) :
    LET r == cards[m].row
    IN  /\ rows[r].messageId # Null
        /\ rows[r].channelId # NoChannel
        /\ r \in getByMessageId(rows, rows[r].messageId)

\* C13: the row insertPayout returns is OPEN, has no dueAt, no message id, no
\* channel id and no actor, has createdAt = updatedAt = the now it was given,
\* and has an id no earlier row has.
C13_CreatedRowShape ==
  [][Len(rows') > Len(rows) =>
       LET new == modal'.row
       IN  /\ Len(rows') = Len(rows) + 1
           /\ new = rows'[Len(rows')]
           /\ new.status = "OPEN"
           /\ new.dueAt = Null
           /\ new.messageId = Null /\ new.channelId = NoChannel
           /\ new.actedById = NoUser
           /\ new.createdAt = clock /\ new.updatedAt = clock
           /\ \A r \in RowIds : rows[r].id # new.id /\ rows'[r] = rows[r]]_vars
\* the second row, created fourteen days after the process started
C13_Witness ==
  /\ Len(rows) = 2
  /\ modal.pc = "send" /\ modal.row = rows[2]
  /\ rows[2].createdAt = 14 * 86400
  /\ rows[1].createdAt = 0 /\ rows[1].messageId = 1

\* C14: a row is inserted with a positive amount, and no step changes the
\* amount, the payee, the reason, the requester or the createdAt of a row.
C14_AmountFixedAtInsert ==
  [][/\ Len(rows') > Len(rows) => rows'[Len(rows')].amount > 0
     /\ \A r \in RowIds :
          /\ rows'[r].amount = rows[r].amount
          /\ rows'[r].robloxUser = rows[r].robloxUser
          /\ rows'[r].reason = rows[r].reason
          /\ rows'[r].requestedById = rows[r].requestedById
          /\ rows'[r].createdAt = rows[r].createdAt
          /\ rows'[r].id = rows[r].id]_vars
\* a row that was linked, set to COOLDOWN by a click, reopened by the worker
\* and linked to its second card, fourteen days after its insert
C14_Witness ==
  /\ Len(rows) = 1
  /\ rows[1].status = "OPEN" /\ rows[1].messageId = 2
  /\ rows[1].actedById # NoUser
  /\ rows[1].amount = 100 /\ rows[1].createdAt = 0 /\ rows[1].updatedAt > 0
  /\ requeue[1].reopens = 1

\* C15: every card in a channel has its three buttons enabled exactly when
\* the status it shows is OPEN, and all three disabled otherwise.
C15_ControlsMatchShownStatus ==
  \A m \in 1..Len(cards) :
    \A id \in ButtonIds : cards[m].components[id] = (cards[m].status # "OPEN")

\* C16: a click on a card whose message id no row stores when the handler
\* looks it up is answered with not-found, and that handler changes no row: it
\* writes nothing at the lookup and takes no step afterwards; a click that is
\* taken further was on a card whose message id its row stored.
C16_NotFoundChangesNothing ==
  [][\A b \in ButtonSlots :
       /\ (btn[b].pc = "idle" /\ btn'[b].pc = "notfound") =>
            /\ \A r \in RowIds : rows[r].messageId # btn'[b].msg
            /\ rows' = rows
       /\ (btn[b].pc = "idle" /\ btn'[b].pc = "update") =>
            /\ btn'[b].rowId \in RowIds
            /\ rows[btn'[b].rowId].messageId = btn'[b].msg
       /\ btn[b].pc = "notfound" => btn'[b] = btn[b]]_vars
\* the worker has requeued the row and linked it to its second card, and a
\* click on the first card was answered with not-found
C16_Witness ==
  \E b \in ButtonSlots :
    /\ btn[b].pc = "notfound" /\ btn[b].msg = 1
    /\ Len(cards) = 2 /\ cards[2].row = 1
    /\ rows[1].messageId = 2 /\ rows[1].status = "OPEN"
    /\ requeue[1].reopens = 1

\* month m, day d of year y is a date of the calendar
C17_RealDate(m, d, y) ==
  /\ m \in 1..12
  /\ d >= 1
  /\ d <= (IF m \in {4, 6, 9, 11} THEN 30
           ELSE IF m # 2 THEN 31
           ELSE IF (y % 4 = 0 /\ y % 100 # 0) \/ y % 400 = 0 THEN 29 ELSE 28)
\* C17: for a text M/D/YYYY, MM/DD/YYYY or YYYY-MM-DD of a date of the
\* calendar, normalizeDate applied to what normalizeDate returned returns the
\* same text.
C17_NormalizeIdempotent ==
  (/\ modal.pc = "renormalized"
   /\ C17_RealDate(modal.input.m, modal.input.d, modal.input.y)) =>
    modal.again = modal.date

\* C18: for a text M/D/YYYY or MM/DD/YYYY, normalizeDate returns the failure
\* signal when month, day and year are not a date of the calendar, and the
\* text of the same month, day and year when they are.
C18_SlashDateChecked ==
  (/\ modal.pc = "normalized"
   /\ modal.input.shape \in {"M/D/YYYY", "MM/DD/YYYY"}) =>
    IF C17_RealDate(modal.input.m, modal.input.d, modal.input.y)
    THEN modal.date = NatToText(modal.input.m) \o <<"/">> \o NatToText(modal.input.d)
                        \o <<"/">> \o NatToText(modal.input.y)
    ELSE modal.date = NoDate

\* the posted cards of row r whose buttons are enabled
C19_LiveCards(r) ==
  { m \in 1..Len(cards) : cards[m].row = r /\ \A id \in ButtonIds : ~cards[m].components[id] }
\* a postCard for row r is between its channel.send and its setMessageLink
C19_Posting(r) ==
  \/ modal.pc = "link" /\ modal.row.id = r
  \/ \E s \in SweepSlots : sweep[s].pc = "link" /\ sweep[s].refreshed.id = r
\* C19: in every state, a row has at most one posted card with enabled
\* buttons, and when no postCard for the row is under way that card is the one
\* whose message id the row stores.
C19_OneLiveCardPerRow ==
  \A r \in RowIds :
    /\ Cardinality(C19_LiveCards(r)) <= 1
    /\ ~C19_Posting(r) => \A m \in C19_LiveCards(r) : rows[r].messageId = m

\* C20: the UPDATE of reopenAndDetach is applied only to a row whose dueAt is
\* non-null and not later than the clock.
C20_NoEarlyReopen ==
  [][\A s \in SweepSlots :
       (sweep[s].pc = "reopen" /\ sweep'[s].pc = "getById") =>
         LET r == sweep[s].due[sweep[s].idx].id
         IN  rows[r].dueAt # Null /\ rows[r].dueAt <= clock]_vars

====
